---- MODULE Spec2Model ----
(***************************************************************************)
(* Budget dashboard: the in-memory record store behind the record API,     *)
(* the dashboard's local state (projection dates, overdraft settings) and  *)
(* the derived views the dashboard computes on every render.               *)
(*                                                                         *)
(* Amounts are the numeric value of the stored decimal string, in cents.   *)
(***************************************************************************)
EXTENDS Integers, Sequences, FiniteSets, TLC

VARIABLES
    storeIncomes,       \* MemStorage.incomes: Map in insertion order
    storeDeductions,    \* MemStorage.deductions: Map in insertion order
    uuidCount,          \* number of ids handed out by randomUUID so far
    incomes,            \* useQuery data for /api/incomes
    deductions,         \* useQuery data for /api/deductions
    currentDay,         \* what new Date().getDate() returns
    projectionDates,    \* useState<number[]>
    overdraftEnabled,   \* useState<boolean>
    overdraftLimit,     \* useState<number>
    editingIncome,      \* useState<Income | null>: <<>> for null, <<income>> otherwise
    editingDeduction,   \* useState<Deduction | null>
    lastOp,             \* history: the last projection-date operation
    lastRequest         \* history: the last request to the record API and its response
                        \* status, or the last form handler that ran

vars == <<storeIncomes, storeDeductions, uuidCount, incomes, deductions,
          currentDay, projectionDates, overdraftEnabled, overdraftLimit, lastOp,
          lastRequest, editingIncome, editingDeduction>>

recordVars == <<storeIncomes, storeDeductions, uuidCount, incomes, deductions>>
overdraftVars == <<overdraftEnabled, overdraftLimit>>
dateVars == <<projectionDates, lastOp>>
editVars == <<editingIncome, editingDeduction>>

----------------------------------------------------------------------------
\* Bounds of the model

\* ids handed out by randomUUID over a run (both collections together)
MaxRecords == 2

\* amounts a request body can carry (cents); the server schema takes any string
PayloadAmounts == {0, 10000}

\* days a request body can carry; the server schema takes any integer
PayloadDays == {0, 10, 20, 32}

\* values of new Date().getDate() that are explored
Days == {10, 12}

\* numbers typed into the projection-date input
DateInputs == {-1, 0, 1, 10, 12, 31, 32}

\* days passed to removeProjectionDate besides the ones on screen
RemoveInputs == {12, 30}

\* the narrower inputs used when records change as well
\* days added as projection dates next to the record requests
MonthEndInputs == {31}

\* texts of the projection date input
DateTexts == {"", "0.5", "1", "5.5", "12", "31", "31.5"}

FewDateInputs == {12}
FewRemoveInputs == {25}

\* target dates passed to calculateBudgetAtDate
TargetDates == {-1, 0, 5, 10, 11, 12, 20, 31, 40}

\* the days sent where the responses are looked at
StoreDays == {10, 32}

\* a value of the wrong JSON type in a request body
IllTypedValues == {-1}

\* the values sent where the validation is looked at
ValidationValues == {10, 10000} \cup IllTypedValues

\* amounts (cents) sent where the arithmetic of the totals is looked at
DecimalAmounts == {10, 20, 30}
DecimalDays == {10, 20}

\* what the forms submit after their own validation (amount > 0, day in 1..31)
FormAmounts == {10000, 25000}
FormDays == {10, 20}

\* the ids a request body may carry besides the schema's fields
ForeignIds == {1}

\* values typed into the overdraft limit input (cents)
LimitInputs == {-1000, 0, 3000, 30000}

----------------------------------------------------------------------------
\* Program constants

MinDay == 1
MaxDay == 31

\* unit of the numbers of the date input where they need not be whole
HalvesPerDay == 2

\* IEEE 754 binary64, the Number type: bits of the significand
SignificandBits == 53

\* cents in one unit of the decimal(10, 2) column
CentsPerUnit == 100
InitialProjectionDates == <<5, 10, 15, 20, 25>>

----------------------------------------------------------------------------
\* Array helpers

Max(a, b) == IF a >= b THEN a ELSE b
Min(a, b) == IF a <= b THEN a ELSE b
Abs(a) == IF a < 0 THEN -a ELSE a

Includes(seq, x) == \E i \in 1..Len(seq) : seq[i] = x

\* records.reduce((sum, r) => sum + Number(r.amount), 0)
RECURSIVE SumAmounts(_)
SumAmounts(seq) ==
    IF seq = <<>> THEN 0 ELSE SumAmounts(SubSeq(seq, 1, Len(seq) - 1)) + seq[Len(seq)].amount

\* one step of the sort: x goes after the elements whose key is not greater
RECURSIVE InsertNumber(_, _)
InsertNumber(seq, x) ==
    IF seq = <<>> THEN <<x>>
    ELSE IF x < Head(seq) THEN <<x>> \o seq
         ELSE <<Head(seq)>> \o InsertNumber(Tail(seq), x)

\* numbers.sort((a, b) => a - b)
RECURSIVE SortNumbers(_)
SortNumbers(seq) ==
    IF seq = <<>> THEN <<>>
    ELSE InsertNumber(SortNumbers(SubSeq(seq, 1, Len(seq) - 1)), seq[Len(seq)])

RECURSIVE InsertPoint(_, _)
InsertPoint(seq, p) ==
    IF seq = <<>> THEN <<p>>
    ELSE IF p.date < Head(seq).date THEN <<p>> \o seq
         ELSE <<Head(seq)>> \o InsertPoint(Tail(seq), p)

\* points.sort((a, b) => a.date - b.date), stable
RECURSIVE SortPoints(_)
SortPoints(seq) ==
    IF seq = <<>> THEN <<>>
    ELSE InsertPoint(SortPoints(SubSeq(seq, 1, Len(seq) - 1)), seq[Len(seq)])

\* JavaScript truthiness of a number
Truthy(n) == n # 0

----------------------------------------------------------------------------
\* Totals (whole month, no filtering by date)

totalIncome == SumAmounts(incomes)
totalDeductions == SumAmounts(deductions)
remainingBudget == totalIncome - totalDeductions

----------------------------------------------------------------------------
\* Monthly tracking: processed / pending split

getCurrentDayOfMonth == currentDay

getProcessedIncomesExclusive ==
    SelectSeq(incomes, LAMBDA income :
        Truthy(income.incomeDate) /\ income.incomeDate < getCurrentDayOfMonth)

getProcessedIncomes ==
    SelectSeq(incomes, LAMBDA income :
        Truthy(income.incomeDate) /\ income.incomeDate <= getCurrentDayOfMonth)

getPendingIncomesOffByOne ==
    SelectSeq(incomes, LAMBDA income :
        Truthy(income.incomeDate) /\ income.incomeDate >= getCurrentDayOfMonth)

getPendingIncomes ==
    SelectSeq(incomes, LAMBDA income :
        Truthy(income.incomeDate) /\ income.incomeDate > getCurrentDayOfMonth)

getProcessedDeductions ==
    SelectSeq(deductions, LAMBDA deduction :
        deduction.deductionDate <= getCurrentDayOfMonth)

getPendingDeductions ==
    SelectSeq(deductions, LAMBDA deduction :
        deduction.deductionDate > getCurrentDayOfMonth)

processedIncomesTotal == SumAmounts(getProcessedIncomes)
pendingIncomesTotal == SumAmounts(getPendingIncomes)
processedDeductionsTotal == SumAmounts(getProcessedDeductions)
pendingDeductionsTotal == SumAmounts(getPendingDeductions)

rawBudget == processedIncomesTotal - processedDeductionsTotal

----------------------------------------------------------------------------
\* Overdraft: dashboard view on the whole month, monthly view on processed

currentAvailableBudgetAlwaysClamped == Max(0, remainingBudget)

currentAvailableBudget ==
    IF overdraftEnabled THEN Max(0, remainingBudget) ELSE remainingBudget

usedOverdraft ==
    IF overdraftEnabled /\ remainingBudget < 0 THEN Abs(remainingBudget) ELSE 0

remainingOverdraftUnclamped ==
    IF overdraftEnabled THEN overdraftLimit - usedOverdraft ELSE 0

remainingOverdraft ==
    IF overdraftEnabled THEN Max(0, overdraftLimit - usedOverdraft) ELSE 0

monthlyCurrentAvailableBudget ==
    IF overdraftEnabled THEN Max(0, rawBudget) ELSE rawBudget

monthlyUsedOverdraftOfWholeMonth ==
    IF overdraftEnabled /\ remainingBudget < 0 THEN Abs(remainingBudget) ELSE 0

monthlyUsedOverdraft ==
    IF overdraftEnabled /\ rawBudget < 0 THEN Abs(rawBudget) ELSE 0

monthlyRemainingOverdraft ==
    IF overdraftEnabled THEN Max(0, overdraftLimit - monthlyUsedOverdraft) ELSE 0

----------------------------------------------------------------------------
\* The same totals in the arithmetic the code runs them in: Number(amount)
\* is the binary64 value nearest to the decimal string, and + rounds its
\* exact result to binary64 (round to nearest, ties to even).
\* A non-negative number is written as its multiple of 2^-FractionBits, a
\* sequence of Limbs digits in base 2^LimbBits, most significant first;
\* 2^-FractionBits is below the last place of every binary64 value from 0.01
\* up. Bits are numbered from 1, the least significant.

LimbBits == 12
Limbs == 6
FractionLimbs == 5
FractionBits == FractionLimbs * LimbBits
Base == 2 ^ LimbBits

ZeroLimbs == [k \in 1..Limbs |-> 0]

\* exact sum of two numbers from limb k to the last one, with the carry out
RECURSIVE AddFrom(_, _, _)
AddFrom(a, b, k) ==
    IF k > Limbs THEN [s |-> <<>>, c |-> 0]
    ELSE LET tail == AddFrom(a, b, k + 1)
             t == a[k] + b[k] + tail.c
         IN  [s |-> <<t % Base>> \o tail.s, c |-> t \div Base]

AddLimbs(a, b) == AddFrom(a, b, 1).s

\* bits below limb k
BitsBelow(k) == (Limbs - k) * LimbBits

Bit(n, j) ==
    LET k == Limbs - ((j - 1) \div LimbBits)
    IN  (n[k] \div (2 ^ ((j - 1) % LimbBits))) % 2

\* number of the leading 1 bit, 0 for zero
LeadingOne(n) ==
    IF \A k \in 1..Limbs : n[k] = 0 THEN 0
    ELSE CHOOSE j \in 1..(Limbs * LimbBits) :
            /\ Bit(n, j) = 1
            /\ \A i \in (j + 1)..(Limbs * LimbBits) : Bit(n, i) = 0

\* n with its drop lowest bits cleared
ClearLow(n, drop) ==
    [k \in 1..Limbs |->
        IF BitsBelow(k) >= drop THEN n[k]
        ELSE IF BitsBelow(k) + LimbBits <= drop THEN 0
        ELSE n[k] - (n[k] % (2 ^ (drop - BitsBelow(k))))]

\* the number whose only 1 is bit j
OneBit(j) ==
    [k \in 1..Limbs |->
        IF BitsBelow(k) < j /\ j <= BitsBelow(k) + LimbBits
        THEN 2 ^ (j - 1 - BitsBelow(k))
        ELSE 0]

\* the binary64 value nearest to n (n plus a little more when sticky), ties
\* to even
RoundToDouble(n, sticky) ==
    LET drop == LeadingOne(n) - SignificandBits
    IN  IF drop <= 0 THEN n
        ELSE LET guard == Bit(n, drop)
                 rest == sticky \/ \E i \in 1..(drop - 1) : Bit(n, i) = 1
                 kept == ClearLow(n, drop)
             IN  IF guard = 1 /\ (rest \/ Bit(n, drop + 1) = 1)
                 THEN AddLimbs(kept, OneBit(drop + 1))
                 ELSE kept

\* cents * 2^FractionBits, exactly
ShiftedCents(cents) == [k \in 1..Limbs |-> IF k = 1 THEN cents ELSE 0]

\* long division of the first k limbs of n by CentsPerUnit
RECURSIVE DivideFirst(_, _)
DivideFirst(n, k) ==
    IF k = 0 THEN [q |-> <<>>, r |-> 0]
    ELSE LET prev == DivideFirst(n, k - 1)
             rem == Base * prev.r + n[k]
         IN  [q |-> Append(prev.q, rem \div CentsPerUnit), r |-> rem % CentsPerUnit]

\* Number("0.10"): the amount of cents / 100, correctly rounded
NumberOfCents(cents) ==
    LET d == DivideFirst(ShiftedCents(cents), Limbs)
    IN  RoundToDouble(d.q, d.r # 0)

\* a + b in binary64
DoubleAdd(a, b) == RoundToDouble(AddLimbs(a, b), FALSE)

\* a < b
LessLimbs(a, b) ==
    \E k \in 1..Limbs : a[k] < b[k] /\ \A j \in 1..(k - 1) : a[j] = b[j]

\* exact difference a - b of two numbers with a >= b, from limb k to the
\* last one, with the borrow out
RECURSIVE SubFrom(_, _, _)
SubFrom(a, b, k) ==
    IF k > Limbs THEN [s |-> <<>>, c |-> 0]
    ELSE LET tail == SubFrom(a, b, k + 1)
             t == a[k] - b[k] - tail.c
         IN  IF t < 0 THEN [s |-> <<t + Base>> \o tail.s, c |-> 1]
             ELSE [s |-> <<t>> \o tail.s, c |-> 0]

SubLimbs(a, b) == SubFrom(a, b, 1).s

\* a - b in binary64 for a, b >= 0: a sign and a magnitude
DoubleSub(a, b) ==
    IF LessLimbs(a, b)
    THEN [neg |-> TRUE, mag |-> RoundToDouble(SubLimbs(b, a), FALSE)]
    ELSE [neg |-> FALSE, mag |-> RoundToDouble(SubLimbs(a, b), FALSE)]

\* Number of a decimal string with a sign
SignedNumberOfCents(cents) == [neg |-> cents < 0, mag |-> NumberOfCents(Abs(cents))]

\* records.reduce((sum, record) => sum + Number(record.amount), 0)
RECURSIVE ReduceNumber(_, _)
ReduceNumber(records, i) ==
    IF i = 0 THEN ZeroLimbs
    ELSE DoubleAdd(ReduceNumber(records, i - 1), NumberOfCents(records[i].amount))

totalIncomeNumber == ReduceNumber(incomes, Len(incomes))

totalDeductionsNumber == ReduceNumber(deductions, Len(deductions))

remainingBudgetNumber == DoubleSub(totalIncomeNumber, totalDeductionsNumber)

\* Monthly tracking tab: what the two "current budget" cells display
\* card "Budget Actuel Disponible", captioned "Au <day> du mois"
monthlyTabBudgetActuelDisponible == currentAvailableBudget

\* cell "Budget Actuel" of "Projection Fin de Mois"
monthlyTabBudgetActuel == monthlyCurrentAvailableBudget

----------------------------------------------------------------------------
\* Projection

calculateBudgetAtDateUnclamped(targetDate) ==
    LET targetDay == targetDate
        processedIncomesAtDate ==
            SumAmounts(SelectSeq(incomes, LAMBDA income :
                Truthy(income.incomeDate) /\ income.incomeDate <= targetDay))
        processedDeductionsAtDate ==
            SumAmounts(SelectSeq(deductions, LAMBDA deduction :
                deduction.deductionDate <= targetDay))
    IN  processedIncomesAtDate - processedDeductionsAtDate

calculateBudgetAtDate(targetDate) ==
    LET targetDay == Min(targetDate, getCurrentDayOfMonth)
        processedIncomesAtDate ==
            SumAmounts(SelectSeq(incomes, LAMBDA income :
                Truthy(income.incomeDate) /\ income.incomeDate <= targetDay))
        processedDeductionsAtDate ==
            SumAmounts(SelectSeq(deductions, LAMBDA deduction :
                deduction.deductionDate <= targetDay))
    IN  processedIncomesAtDate - processedDeductionsAtDate

\* the callback of projectionDates.map
ProjectionPointTodayIsPast(date) ==
    LET processedIncomes ==
            SumAmounts(SelectSeq(incomes, LAMBDA income :
                Truthy(income.incomeDate) /\ income.incomeDate <= date))
        processedDeductions ==
            SumAmounts(SelectSeq(deductions, LAMBDA deduction :
                deduction.deductionDate <= date))
    IN  [date |-> date,
         budget |-> processedIncomes - processedDeductions,
         incomes |-> processedIncomes,
         deductions |-> processedDeductions,
         isPast |-> date <= getCurrentDayOfMonth,
         isToday |-> date <= getCurrentDayOfMonth]

ProjectionPointStrictPast(date) ==
    LET processedIncomes ==
            SumAmounts(SelectSeq(incomes, LAMBDA income :
                Truthy(income.incomeDate) /\ income.incomeDate <= date))
        processedDeductions ==
            SumAmounts(SelectSeq(deductions, LAMBDA deduction :
                deduction.deductionDate <= date))
    IN  [date |-> date,
         budget |-> processedIncomes - processedDeductions,
         incomes |-> processedIncomes,
         deductions |-> processedDeductions,
         isPast |-> date < getCurrentDayOfMonth,
         isToday |-> date = getCurrentDayOfMonth]

ProjectionPoint(date) ==
    LET currentDayNow == getCurrentDayOfMonth
        isPast == date <= currentDayNow
        processedIncomes ==
            SumAmounts(SelectSeq(incomes, LAMBDA income :
                Truthy(income.incomeDate) /\ income.incomeDate <= date))
        processedDeductions ==
            SumAmounts(SelectSeq(deductions, LAMBDA deduction :
                deduction.deductionDate <= date))
        budget == processedIncomes - processedDeductions
    IN  [date |-> date,
         budget |-> budget,
         incomes |-> processedIncomes,
         deductions |-> processedDeductions,
         isPast |-> isPast,
         isToday |-> date = currentDayNow]

getProjectionDataPastOnly ==
    SortPoints(SelectSeq([i \in 1..Len(projectionDates) |-> ProjectionPoint(projectionDates[i])],
                         LAMBDA p : p.isPast))

getProjectionData ==
    LET projectionData ==
            [i \in 1..Len(projectionDates) |-> ProjectionPoint(projectionDates[i])]
    IN  SortPoints(projectionData)

\* the array addProjectionDate hands to setProjectionDates
addProjectionDateNoSort(dates, newDate) ==
    IF newDate >= MinDay /\ newDate <= MaxDay /\ ~Includes(dates, newDate)
    THEN Append(dates, newDate)
    ELSE dates

addProjectionDateThirtyTwo(dates, newDate) ==
    IF newDate >= MinDay /\ newDate <= MaxDay + 1 /\ ~Includes(dates, newDate)
    THEN SortNumbers(Append(dates, newDate))
    ELSE dates

addProjectionDate(dates, newDate) ==
    IF newDate >= MinDay /\ newDate <= MaxDay /\ ~Includes(dates, newDate)
    THEN SortNumbers(Append(dates, newDate))
    ELSE dates

\* addProjectionDate over numbers that need not be whole: the dates are
\* kept in halves of a day (11 is 5.5, 62 is 31)
addProjectionDateNumber(dates, newDate) ==
    IF /\ newDate >= MinDay * HalvesPerDay
       /\ newDate <= MaxDay * HalvesPerDay
       /\ ~Includes(dates, newDate)
    THEN SortNumbers(Append(dates, newDate))
    ELSE dates

\* Number(input.value) of the date input, in halves of a day; a number
\* input hands over "" for text that is not a number
NumberOfDateText(text) ==
    CASE text = "" -> 0
      [] text = "0.5" -> 1
      [] text = "1" -> 2
      [] text = "5.5" -> 11
      [] text = "12" -> 24
      [] text = "31" -> 62
      [] text = "31.5" -> 63

\* the array removeProjectionDate hands to setProjectionDates
removeProjectionDateAndLater(dates, dateToRemove) ==
    SelectSeq(dates, LAMBDA date : date < dateToRemove)

removeProjectionDate(dates, dateToRemove) ==
    SelectSeq(dates, LAMBDA date : date # dateToRemove)

----------------------------------------------------------------------------
\* Record store (MemStorage) and the record API in front of it.
\* A request body is a function from the fields it carries to their values;
\* description, frequency and category play no part in any computation and
\* are left out of the records.

\* IllTypedValues stands for a JSON value of the wrong type: a number or null
\* where the schema wants the decimal string of the amount, a string or null
\* where it wants the integer of the day.
Bodies(dateField) ==
    UNION {{b \in [F -> PayloadAmounts \cup PayloadDays \cup IllTypedValues] :
                /\ "amount" \in F => b["amount"] \in PayloadAmounts \cup IllTypedValues
                /\ dateField \in F => b[dateField] \in PayloadDays \cup IllTypedValues}
           : F \in SUBSET {"amount", dateField}}

IncomeBodies == Bodies("incomeDate")

DeductionBodies == Bodies("deductionDate")

\* well-typed bodies: a decimal string for the amount, an integer for the day
WellTyped(body, dateField) ==
    \A f \in DOMAIN body \cap {"amount", dateField} : body[f] \notin IllTypedValues

\* insertIncomeSchema.parse / insertDeductionSchema.parse: every column that
\* is notNull without a default must be there; no range is checked
insertSchemaAccepts(body, dateField) ==
    /\ {"amount", dateField} \subseteq DOMAIN body
    /\ WellTyped(body, dateField)

\* insertIncomeSchema.partial().parse: every field is optional
partialSchemaAccepts(body, dateField) ==
    WellTyped(body, dateField)

\* userId: null
NullUser == "null"

\* what parse returns: zod objects strip the keys the schema does not know
\* (id and userId are omitted from both insert schemas)
SchemaStrip(body, dateField) ==
    [f \in DOMAIN body \cap {"amount", dateField} |-> body[f]]

\* A Map is the sequence of its entries [key, value] in insertion order.

\* Map.has(key)
MapHas(store, key) == \E i \in 1..Len(store) : store[i].key = key

\* Map.get(key): position of the entry, 0 when there is none
MapIndex(store, key) ==
    IF MapHas(store, key)
    THEN CHOOSE i \in 1..Len(store) : store[i].key = key
    ELSE 0

\* Array.from(map.values())
MapValues(store) == [i \in 1..Len(store) |-> store[i].value]

\* { ...existing, ...updateData }
SpreadExistingWins(existing, updateData) ==
    [f \in DOMAIN existing \cup DOMAIN updateData |->
        IF f \in DOMAIN existing THEN existing[f] ELSE updateData[f]]

Spread(existing, updateData) ==
    [f \in DOMAIN existing \cup DOMAIN updateData |->
        IF f \in DOMAIN updateData THEN updateData[f] ELSE existing[f]]

\* Map.delete(key)
MapDelete(store, key) == SelectSeq(store, LAMBDA entry : entry.key # key)

\* MemStorage.createIncome, with randomUUID handing out the next unused id
createIncomeSizeId(insertIncome) ==
    /\ uuidCount' = uuidCount + 1
    /\ storeIncomes' = Append(storeIncomes,
            [key |-> Len(storeIncomes) + 1,
             value |-> Spread(insertIncome, [id |-> Len(storeIncomes) + 1, userId |-> NullUser])])

createIncome(insertIncome) ==
    LET id == uuidCount + 1
    IN  /\ uuidCount' = uuidCount + 1
        /\ storeIncomes' = Append(storeIncomes,
                [key |-> id, value |-> Spread(insertIncome, [id |-> id, userId |-> NullUser])])

createDeduction(insertDeduction) ==
    LET id == uuidCount + 1
    IN  /\ uuidCount' = uuidCount + 1
        /\ storeDeductions' = Append(storeDeductions,
                [key |-> id, value |-> Spread(insertDeduction, [id |-> id, userId |-> NullUser])])

\* MemStorage.updateIncome: the new Map, unchanged when the id is absent
updateIncome(id, updateData) ==
    LET i == MapIndex(storeIncomes, id)
    IN  IF i = 0 THEN storeIncomes
        ELSE [storeIncomes EXCEPT ![i].value = Spread(storeIncomes[i].value, updateData)]

updateDeduction(id, updateData) ==
    LET i == MapIndex(storeDeductions, id)
    IN  IF i = 0 THEN storeDeductions
        ELSE [storeDeductions EXCEPT
                ![i].value = Spread(storeDeductions[i].value, updateData)]

deleteIncome(id) == MapDelete(storeIncomes, id)

deleteDeduction(id) == MapDelete(storeDeductions, id)

\* what MemStorage.deleteIncome / deleteDeduction return: Map.delete's result
deleteIncomeReturns(id) == MapHas(storeIncomes, id)

deleteDeductionReturns(id) == MapHas(storeDeductions, id)

\* HTTP status of the response to each request
PostIncomeStatus(body) ==
    IF insertSchemaAccepts(body, "incomeDate") THEN 201 ELSE 400

PutIncomeStatusNoNotFound(id, body) ==
    IF ~partialSchemaAccepts(body, "incomeDate") THEN 400 ELSE 200

PutIncomeStatus(id, body) ==
    IF ~partialSchemaAccepts(body, "incomeDate") THEN 400
    ELSE IF ~MapHas(storeIncomes, id) THEN 404
    ELSE 200

DeleteIncomeStatus(id) == IF ~deleteIncomeReturns(id) THEN 404 ELSE 204

PostDeductionStatus(body) ==
    IF insertSchemaAccepts(body, "deductionDate") THEN 201 ELSE 400

PutDeductionStatus(id, body) ==
    IF ~partialSchemaAccepts(body, "deductionDate") THEN 400
    ELSE IF ~MapHas(storeDeductions, id) THEN 404
    ELSE 200

DeleteDeductionStatus(id) == IF ~deleteDeductionReturns(id) THEN 404 ELSE 204

\* The record actions leave lastRequest to the specification: it is kept
\* only where the responses are looked at.

\* what each route does to the store
PostIncomeRoute(body) ==
    IF insertSchemaAccepts(body, "incomeDate")
    THEN /\ uuidCount < MaxRecords
         /\ createIncome(SchemaStrip(body, "incomeDate"))
    ELSE UNCHANGED <<storeIncomes, uuidCount>>

PutIncomeRoute(id, body) ==
    storeIncomes' =
        IF partialSchemaAccepts(body, "incomeDate")
        THEN updateIncome(id, SchemaStrip(body, "incomeDate"))
        ELSE storeIncomes

DeleteIncomeRoute(id) == storeIncomes' = deleteIncome(id)

PostDeductionRoute(body) ==
    IF insertSchemaAccepts(body, "deductionDate")
    THEN /\ uuidCount < MaxRecords
         /\ createDeduction(SchemaStrip(body, "deductionDate"))
    ELSE UNCHANGED <<storeDeductions, uuidCount>>

PutDeductionRoute(id, body) ==
    storeDeductions' =
        IF partialSchemaAccepts(body, "deductionDate")
        THEN updateDeduction(id, SchemaStrip(body, "deductionDate"))
        ELSE storeDeductions

DeleteDeductionRoute(id) == storeDeductions' = deleteDeduction(id)

\* POST /api/incomes, then the refetch that invalidateQueries triggers
PostIncome(body) ==
    /\ PostIncomeRoute(body)
    /\ incomes' = MapValues(storeIncomes')
    /\ UNCHANGED <<storeDeductions, deductions, currentDay, overdraftVars, dateVars>>

PutIncomeUnvalidated(id, body) ==
    /\ storeIncomes' = updateIncome(id, SchemaStrip(body, "incomeDate"))
    /\ incomes' = MapValues(storeIncomes')
    /\ UNCHANGED <<uuidCount, storeDeductions, deductions, currentDay, overdraftVars, dateVars>>

\* PUT /api/incomes/:id
PutIncome(id, body) ==
    /\ PutIncomeRoute(id, body)
    /\ incomes' = MapValues(storeIncomes')
    /\ UNCHANGED <<uuidCount, storeDeductions, deductions, currentDay, overdraftVars, dateVars>>

\* DELETE /api/incomes/:id
DeleteIncome(id) ==
    /\ DeleteIncomeRoute(id)
    /\ incomes' = MapValues(storeIncomes')
    /\ UNCHANGED <<uuidCount, storeDeductions, deductions, currentDay, overdraftVars, dateVars>>

\* POST /api/deductions
PostDeduction(body) ==
    /\ PostDeductionRoute(body)
    /\ deductions' = MapValues(storeDeductions')
    /\ UNCHANGED <<storeIncomes, incomes, currentDay, overdraftVars, dateVars>>

\* PUT /api/deductions/:id
PutDeduction(id, body) ==
    /\ PutDeductionRoute(id, body)
    /\ deductions' = MapValues(storeDeductions')
    /\ UNCHANGED <<uuidCount, storeIncomes, incomes, currentDay, overdraftVars, dateVars>>

\* DELETE /api/deductions/:id
DeleteDeduction(id) ==
    /\ DeleteDeductionRoute(id)
    /\ deductions' = MapValues(storeDeductions')
    /\ UNCHANGED <<uuidCount, storeIncomes, incomes, currentDay, overdraftVars, dateVars>>

----------------------------------------------------------------------------
\* The forms and the mutations behind them

\* apiRequest resolves on a 2xx response and rejects otherwise, so that the
\* mutation runs onSuccess or onError
apiRequestOk(status) == status \in {200, 201, 204}

IncomeFormData == [amount : FormAmounts, incomeDate : FormDays]
DeductionFormData == [amount : FormAmounts, deductionDate : FormDays]

createIncomeMutation(data) ==
    LET status == PostIncomeStatus(data)
    IN  /\ PostIncomeRoute(data)
        /\ incomes' = IF apiRequestOk(status) THEN MapValues(storeIncomes') ELSE incomes
        /\ lastRequest' = [op |-> "POST /api/incomes", id |-> 0, body |-> data,
                           status |-> status]
        /\ UNCHANGED <<storeDeductions, deductions, editVars,
                       currentDay, overdraftVars, dateVars>>

updateIncomeMutation(id, data) ==
    LET status == PutIncomeStatus(id, data)
    IN  /\ PutIncomeRoute(id, data)
        /\ incomes' = IF apiRequestOk(status) THEN MapValues(storeIncomes') ELSE incomes
        /\ editingIncome' = IF apiRequestOk(status) THEN <<>> ELSE editingIncome
        /\ lastRequest' = [op |-> "PUT /api/incomes", id |-> id, body |-> data,
                           status |-> status]
        /\ UNCHANGED <<uuidCount, storeDeductions, deductions, editingDeduction,
                       currentDay, overdraftVars, dateVars>>

deleteIncomeMutationNoInvalidate(id) ==
    LET status == DeleteIncomeStatus(id)
    IN  /\ DeleteIncomeRoute(id)
        /\ lastRequest' = [op |-> "DELETE /api/incomes", id |-> id, body |-> <<>>,
                           status |-> status]
        /\ UNCHANGED <<incomes, uuidCount, storeDeductions, deductions, editVars,
                       currentDay, overdraftVars, dateVars>>

deleteIncomeMutation(id) ==
    LET status == DeleteIncomeStatus(id)
    IN  /\ DeleteIncomeRoute(id)
        /\ incomes' = IF apiRequestOk(status) THEN MapValues(storeIncomes') ELSE incomes
        /\ lastRequest' = [op |-> "DELETE /api/incomes", id |-> id, body |-> <<>>,
                           status |-> status]
        /\ UNCHANGED <<uuidCount, storeDeductions, deductions, editVars,
                       currentDay, overdraftVars, dateVars>>

createDeductionMutation(data) ==
    LET status == PostDeductionStatus(data)
    IN  /\ PostDeductionRoute(data)
        /\ deductions' = IF apiRequestOk(status) THEN MapValues(storeDeductions')
                          ELSE deductions
        /\ lastRequest' = [op |-> "POST /api/deductions", id |-> 0, body |-> data,
                           status |-> status]
        /\ UNCHANGED <<storeIncomes, incomes, editVars,
                       currentDay, overdraftVars, dateVars>>

updateDeductionMutation(id, data) ==
    LET status == PutDeductionStatus(id, data)
    IN  /\ PutDeductionRoute(id, data)
        /\ deductions' = IF apiRequestOk(status) THEN MapValues(storeDeductions')
                          ELSE deductions
        /\ editingDeduction' = IF apiRequestOk(status) THEN <<>> ELSE editingDeduction
        /\ lastRequest' = [op |-> "PUT /api/deductions", id |-> id, body |-> data,
                           status |-> status]
        /\ UNCHANGED <<uuidCount, storeIncomes, incomes, editingIncome,
                       currentDay, overdraftVars, dateVars>>

deleteDeductionMutation(id) ==
    LET status == DeleteDeductionStatus(id)
    IN  /\ DeleteDeductionRoute(id)
        /\ deductions' = IF apiRequestOk(status) THEN MapValues(storeDeductions')
                          ELSE deductions
        /\ lastRequest' = [op |-> "DELETE /api/deductions", id |-> id, body |-> <<>>,
                           status |-> status]
        /\ UNCHANGED <<uuidCount, storeIncomes, incomes, editVars,
                       currentDay, overdraftVars, dateVars>>

onIncomeSubmitAlwaysCreates(data) == createIncomeMutation(data)

\* the income form, submitted with valid data
onIncomeSubmit(data) ==
    IF editingIncome # <<>>
    THEN updateIncomeMutation(editingIncome[1].id, data)
    ELSE createIncomeMutation(data)

onDeductionSubmit(data) ==
    IF editingDeduction # <<>>
    THEN updateDeductionMutation(editingDeduction[1].id, data)
    ELSE createDeductionMutation(data)

\* the pencil next to a listed record
handleEditIncome(income) ==
    /\ editingIncome' = <<income>>
    /\ lastRequest' = [op |-> "handleEditIncome", id |-> income.id, body |-> <<>>,
                       status |-> 0]
    /\ UNCHANGED <<recordVars, editingDeduction, currentDay, overdraftVars, dateVars>>

handleEditDeduction(deduction) ==
    /\ editingDeduction' = <<deduction>>
    /\ lastRequest' = [op |-> "handleEditDeduction", id |-> deduction.id, body |-> <<>>,
                       status |-> 0]
    /\ UNCHANGED <<recordVars, editingIncome, currentDay, overdraftVars, dateVars>>

\* the cancel button, rendered in a form while its record is edited
cancelEdit ==
    /\ editingIncome # <<>> \/ editingDeduction # <<>>
    /\ editingIncome' = <<>>
    /\ editingDeduction' = <<>>
    /\ lastRequest' = [op |-> "cancelEdit", id |-> 0, body |-> <<>>, status |-> 0]
    /\ UNCHANGED <<recordVars, currentDay, overdraftVars, dateVars>>

----------------------------------------------------------------------------
\* Dashboard state

\* the calendar day changes between two renders
ClockTick(day) ==
    /\ currentDay' = day
    /\ UNCHANGED <<recordVars, overdraftVars, dateVars, lastRequest, editVars>>

\* The projection-date actions leave lastOp to the specification: it is
\* kept only where the operations themselves are looked at.
\* Enter in the date input, or the plus button
AddProjectionDate(newDate) ==
    /\ projectionDates' = addProjectionDate(projectionDates, newDate)
    /\ UNCHANGED <<recordVars, currentDay, overdraftVars, lastRequest, editVars>>

\* the cross next to a date
RemoveProjectionDate(dateToRemove) ==
    /\ projectionDates' = removeProjectionDate(projectionDates, dateToRemove)
    /\ UNCHANGED <<recordVars, currentDay, overdraftVars, lastRequest, editVars>>

\* Enter in the date input: Number(value) goes to addProjectionDate and the
\* input is emptied
DateInputEnter(text) ==
    /\ projectionDates' =
          addProjectionDateNumber(projectionDates, NumberOfDateText(text))
    /\ UNCHANGED <<recordVars, currentDay, overdraftVars, lastRequest, editVars>>

\* the plus button next to the date input: nothing happens on an empty input
DateInputClick(text) ==
    /\ text # ""
    /\ projectionDates' =
          addProjectionDateNumber(projectionDates, NumberOfDateText(text))
    /\ UNCHANGED <<recordVars, currentDay, overdraftVars, lastRequest, editVars>>

\* the overdraft checkbox
SetOverdraftEnabled(checked) ==
    /\ overdraftEnabled' = checked
    /\ UNCHANGED <<recordVars, currentDay, overdraftLimit, dateVars, lastRequest, editVars>>

\* the limit input, rendered only while overdraft is enabled
SetOverdraftLimit(limit) ==
    /\ overdraftEnabled
    /\ overdraftLimit' = limit
    /\ UNCHANGED <<recordVars, currentDay, overdraftEnabled, dateVars, lastRequest, editVars>>

----------------------------------------------------------------------------
\* Specifications

InitExceptDates ==
    /\ storeIncomes = <<>>
    /\ storeDeductions = <<>>
    /\ uuidCount = 0
    /\ incomes = <<>>
    /\ deductions = <<>>
    /\ currentDay \in Days
    /\ overdraftEnabled = FALSE
    /\ overdraftLimit = 0
    /\ lastOp = [op |-> "none", day |-> 0, before |-> <<>>]
    /\ lastRequest = [op |-> "none", id |-> 0, body |-> <<>>, status |-> 0]
    /\ editingIncome = <<>>
    /\ editingDeduction = <<>>

Init == InitExceptDates /\ projectionDates = InitialProjectionDates

Ids == 1..MaxRecords

WellTypedIncomeBodies == {b \in IncomeBodies : WellTyped(b, "incomeDate")}
WellTypedDeductionBodies == {b \in DeductionBodies : WellTyped(b, "deductionDate")}

\* requests whose responses are not looked at
RecordNext ==
    \/ \E body \in WellTypedIncomeBodies :
            PostIncome(body) /\ UNCHANGED <<lastRequest, editVars>>
    \/ \E id \in Ids, body \in WellTypedIncomeBodies :
            PutIncome(id, body) /\ UNCHANGED <<lastRequest, editVars>>
    \/ \E id \in Ids :
            DeleteIncome(id) /\ UNCHANGED <<lastRequest, editVars>>
    \/ \E body \in WellTypedDeductionBodies :
            PostDeduction(body) /\ UNCHANGED <<lastRequest, editVars>>
    \/ \E id \in Ids, body \in WellTypedDeductionBodies :
            PutDeduction(id, body) /\ UNCHANGED <<lastRequest, editVars>>
    \/ \E id \in Ids :
            DeleteDeduction(id) /\ UNCHANGED <<lastRequest, editVars>>

\* the whole dashboard, with few projection-date inputs
Next ==
    \/ RecordNext
    \/ \E day \in Days : ClockTick(day)
    \/ \E d \in FewDateInputs : AddProjectionDate(d) /\ UNCHANGED lastOp
    \/ \E d \in FewRemoveInputs : RemoveProjectionDate(d) /\ UNCHANGED lastOp

Spec == Init /\ [][Next]_vars

\* records and the clock, without the projection dates
TrackingNext ==
    \/ RecordNext
    \/ \E day \in Days : ClockTick(day)

SpecTracking == Init /\ [][TrackingNext]_vars

\* the projection-date set alone, with every input
DatesNext ==
    \/ \E d \in DateInputs :
            /\ AddProjectionDate(d)
            /\ lastOp' = [op |-> "add", day |-> d, before |-> projectionDates]
    \/ \E d \in DateInputs \cup RemoveInputs \cup {projectionDates[i] : i \in 1..Len(projectionDates)} :
            /\ RemoveProjectionDate(d)
            /\ lastOp' = [op |-> "remove", day |-> d, before |-> projectionDates]

SpecDates == Init /\ [][DatesNext]_vars

\* The date input of the projection tab, with the numbers it can hand over;
\* the projection dates are in halves of a day in this specification.
InitDateInput ==
    /\ InitExceptDates
    /\ projectionDates = [i \in 1..Len(InitialProjectionDates) |->
                              InitialProjectionDates[i] * HalvesPerDay]

DateInputNext ==
    \/ \E text \in DateTexts :
            DateInputEnter(text) /\ UNCHANGED lastOp
    \/ \E text \in DateTexts :
            DateInputClick(text) /\ UNCHANGED lastOp
    \/ \E i \in 1..Len(projectionDates) :
            RemoveProjectionDate(projectionDates[i]) /\ UNCHANGED lastOp

SpecDateInput == InitDateInput /\ [][DateInputNext]_vars

\* records and the overdraft settings
OverdraftNext ==
    \/ RecordNext
    \/ \E checked \in BOOLEAN : SetOverdraftEnabled(checked)
    \/ \E limit \in LimitInputs : SetOverdraftLimit(limit)

SpecOverdraft == Init /\ [][OverdraftNext]_vars

\* a body that also carries an id, as a client that echoes a record would send
WithForeignId(body, id) == Spread(body, [id |-> id])

\* the bodies sent where the responses are looked at: fewer days, and each
\* body that has an amount with and without an id
WithAmount(bodies) == {b \in bodies : "amount" \in DOMAIN b}

FewDays(bodies, dateField) ==
    {b \in bodies : dateField \in DOMAIN b => b[dateField] \in StoreDays}

StoreIncomeBodies ==
    LET bodies == FewDays(WellTypedIncomeBodies, "incomeDate")
    IN  bodies \cup {WithForeignId(b, id) : b \in WithAmount(bodies), id \in ForeignIds}

StoreDeductionBodies ==
    LET bodies == FewDays(WellTypedDeductionBodies, "deductionDate")
    IN  bodies \cup {WithForeignId(b, id) : b \in WithAmount(bodies), id \in ForeignIds}

\* the record API alone, with the response to every request kept
StoreNext ==
    \/ \E body \in StoreIncomeBodies :
            /\ PostIncome(body)
            /\ lastRequest' = [op |-> "POST /api/incomes", id |-> 0, body |-> body,
                               status |-> PostIncomeStatus(body)]
            /\ UNCHANGED editVars
    \/ \E id \in Ids, body \in StoreIncomeBodies :
            /\ PutIncome(id, body)
            /\ lastRequest' = [op |-> "PUT /api/incomes", id |-> id, body |-> body,
                               status |-> PutIncomeStatus(id, body)]
            /\ UNCHANGED editVars
    \/ \E id \in Ids :
            /\ DeleteIncome(id)
            /\ lastRequest' = [op |-> "DELETE /api/incomes", id |-> id, body |-> <<>>,
                               status |-> DeleteIncomeStatus(id)]
            /\ UNCHANGED editVars
    \/ \E body \in StoreDeductionBodies :
            /\ PostDeduction(body)
            /\ lastRequest' = [op |-> "POST /api/deductions", id |-> 0, body |-> body,
                               status |-> PostDeductionStatus(body)]
            /\ UNCHANGED editVars
    \/ \E id \in Ids, body \in StoreDeductionBodies :
            /\ PutDeduction(id, body)
            /\ lastRequest' = [op |-> "PUT /api/deductions", id |-> id, body |-> body,
                               status |-> PutDeductionStatus(id, body)]
            /\ UNCHANGED editVars
    \/ \E id \in Ids :
            /\ DeleteDeduction(id)
            /\ lastRequest' = [op |-> "DELETE /api/deductions", id |-> id, body |-> <<>>,
                               status |-> DeleteDeductionStatus(id)]
            /\ UNCHANGED editVars

InitStore == Init /\ currentDay = 10

\* records and the last day of the month as a projection date
MonthEndNext ==
    \/ RecordNext
    \/ \E d \in MonthEndInputs : AddProjectionDate(d) /\ UNCHANGED lastOp
    \/ \E d \in MonthEndInputs : RemoveProjectionDate(d) /\ UNCHANGED lastOp

SpecMonthEnd == InitStore /\ [][MonthEndNext]_vars

SpecStore == InitStore /\ [][StoreNext]_vars

\* the record API with bodies that fail validation among the requests
FewValues(bodies) == {b \in bodies : \A f \in DOMAIN b : b[f] \in ValidationValues}

ValidationNext ==
    \/ \E body \in FewValues(IncomeBodies) :
            /\ PostIncome(body)
            /\ lastRequest' = [op |-> "POST /api/incomes", id |-> 0, body |-> body,
                               status |-> PostIncomeStatus(body)]
            /\ UNCHANGED editVars
    \/ \E id \in Ids, body \in FewValues(IncomeBodies) :
            /\ PutIncome(id, body)
            /\ lastRequest' = [op |-> "PUT /api/incomes", id |-> id, body |-> body,
                               status |-> PutIncomeStatus(id, body)]
            /\ UNCHANGED editVars
    \/ \E id \in Ids :
            /\ DeleteIncome(id)
            /\ lastRequest' = [op |-> "DELETE /api/incomes", id |-> id, body |-> <<>>,
                               status |-> DeleteIncomeStatus(id)]
            /\ UNCHANGED editVars
    \/ \E body \in FewValues(DeductionBodies) :
            /\ PostDeduction(body)
            /\ lastRequest' = [op |-> "POST /api/deductions", id |-> 0, body |-> body,
                               status |-> PostDeductionStatus(body)]
            /\ UNCHANGED editVars
    \/ \E id \in Ids, body \in FewValues(DeductionBodies) :
            /\ PutDeduction(id, body)
            /\ lastRequest' = [op |-> "PUT /api/deductions", id |-> id, body |-> body,
                               status |-> PutDeductionStatus(id, body)]
            /\ UNCHANGED editVars
    \/ \E id \in Ids :
            /\ DeleteDeduction(id)
            /\ lastRequest' = [op |-> "DELETE /api/deductions", id |-> id, body |-> <<>>,
                               status |-> DeleteDeductionStatus(id)]
            /\ UNCHANGED editVars

SpecValidation == InitStore /\ [][ValidationNext]_vars

\* the forms, the pencils and the bins of the record lists
ClientNext ==
    \/ \E data \in IncomeFormData : onIncomeSubmit(data)
    \/ \E data \in DeductionFormData : onDeductionSubmit(data)
    \/ \E i \in 1..Len(incomes) : handleEditIncome(incomes[i])
    \/ \E i \in 1..Len(deductions) : handleEditDeduction(deductions[i])
    \/ \E i \in 1..Len(incomes) : deleteIncomeMutation(incomes[i].id)
    \/ \E i \in 1..Len(deductions) : deleteDeductionMutation(deductions[i].id)
    \/ cancelEdit

SpecClient == InitStore /\ [][ClientNext]_vars

\* the record API with amounts of a few cents
DecimalIncomeBodies ==
    [amount : DecimalAmounts, incomeDate : DecimalDays] \cup [amount : DecimalAmounts]

DecimalDeductionBodies ==
    [amount : DecimalAmounts, deductionDate : DecimalDays] \cup [amount : DecimalAmounts]

DecimalNext ==
    \/ \E body \in DecimalIncomeBodies :
            PostIncome(body) /\ UNCHANGED <<lastRequest, editVars>>
    \/ \E id \in Ids, body \in DecimalIncomeBodies :
            PutIncome(id, body) /\ UNCHANGED <<lastRequest, editVars>>
    \/ \E id \in Ids :
            DeleteIncome(id) /\ UNCHANGED <<lastRequest, editVars>>
    \/ \E body \in DecimalDeductionBodies :
            PostDeduction(body) /\ UNCHANGED <<lastRequest, editVars>>
    \/ \E id \in Ids, body \in DecimalDeductionBodies :
            PutDeduction(id, body) /\ UNCHANGED <<lastRequest, editVars>>
    \/ \E id \in Ids :
            DeleteDeduction(id) /\ UNCHANGED <<lastRequest, editVars>>

SpecDecimal == InitStore /\ [][DecimalNext]_vars

----------------------------------------------------------------------------
\* Properties

InRange(day) == day >= MinDay /\ day <= MaxDay

IncomeDatesInRange == \A i \in 1..Len(incomes) : InRange(incomes[i].incomeDate)
DeductionDatesInRange == \A i \in 1..Len(deductions) : InRange(deductions[i].deductionDate)

\* sum of the amounts of the records at the given positions
RECURSIVE SumAt(_, _)
SumAt(seq, positions) ==
    IF positions = {} THEN 0
    ELSE LET i == CHOOSE j \in positions : TRUE
         IN  seq[i].amount + SumAt(seq, positions \ {i})

IncomesUpTo(day) == SumAt(incomes, {i \in 1..Len(incomes) : incomes[i].incomeDate <= day})
DeductionsUpTo(day) ==
    SumAt(deductions, {i \in 1..Len(deductions) : deductions[i].deductionDate <= day})

Position(seq, x) == CHOOSE i \in 1..Len(seq) : seq[i] = x

Elements(seq) == {seq[i] : i \in 1..Len(seq)}

\* C1: with every date in 1..31, each income is in exactly one of processed
\* and pending incomes and each deduction in exactly one of processed and
\* pending deductions; the two sides are disjoint and together they are the
\* whole collection.
C1_PartitionTotalDisjoint ==
    /\ IncomeDatesInRange =>
          /\ \A i \in 1..Len(incomes) :
                Includes(getProcessedIncomes, incomes[i]) # Includes(getPendingIncomes, incomes[i])
          /\ Elements(getProcessedIncomes) \cap Elements(getPendingIncomes) = {}
          /\ Elements(getProcessedIncomes) \cup Elements(getPendingIncomes) = Elements(incomes)
          /\ Len(getProcessedIncomes) + Len(getPendingIncomes) = Len(incomes)
    /\ DeductionDatesInRange =>
          /\ \A i \in 1..Len(deductions) :
                Includes(getProcessedDeductions, deductions[i])
                    # Includes(getPendingDeductions, deductions[i])
          /\ Elements(getProcessedDeductions) \cap Elements(getPendingDeductions) = {}
          /\ Elements(getProcessedDeductions) \cup Elements(getPendingDeductions)
                = Elements(deductions)
          /\ Len(getProcessedDeductions) + Len(getPendingDeductions) = Len(deductions)

\* two incomes in range, one dated today (processed) and one later (pending)
C1_Witness ==
    /\ IncomeDatesInRange
    /\ \E i \in 1..Len(incomes) : incomes[i].incomeDate = currentDay
    /\ Len(getProcessedIncomes) = 1
    /\ Len(getPendingIncomes) = 1

\* C2: calculateBudgetAtDate(targetDate) is the sum of the incomes dated up to
\* min(targetDate, currentDay) minus the sum of the deductions dated up to
\* that day, so from currentDay on it no longer depends on targetDate.
C2_BudgetAtDateClamped ==
    \A targetDate \in TargetDates :
        calculateBudgetAtDate(targetDate) =
            IF targetDate >= currentDay
            THEN IncomesUpTo(currentDay) - DeductionsUpTo(currentDay)
            ELSE IncomesUpTo(targetDate) - DeductionsUpTo(targetDate)

\* C3: every point of getProjectionData carries the sum of all incomes dated
\* up to its date, the sum of all deductions dated up to its date and their
\* difference, also when its date is after currentDay.
C3_ProjectionNotClamped ==
    \A i \in 1..Len(getProjectionData) :
        LET point == getProjectionData[i]
        IN  /\ point.incomes = IncomesUpTo(point.date)
            /\ point.deductions = DeductionsUpTo(point.date)
            /\ point.budget = point.incomes - point.deductions

\* C4: the projection dates are sorted ascending and hold no value twice.
C4_DatesSortedNoDuplicates ==
    \A i, j \in 1..Len(projectionDates) :
        i < j => projectionDates[i] < projectionDates[j]

\* a day was inserted in front of later days, after some removal
C4_Witness ==
    /\ lastOp.op = "add"
    /\ ~Includes(lastOp.before, lastOp.day)
    /\ Includes(projectionDates, lastOp.day)
    /\ projectionDates[Len(projectionDates)] # lastOp.day
    /\ Len(lastOp.before) < Len(InitialProjectionDates)

\* C5: addProjectionDate of a day that is already there, or outside 1..31,
\* leaves the projection dates as they were; adding the day once more after
\* any add changes nothing.
C5_AddRejectsAndIsIdempotent ==
    lastOp.op = "add" =>
        /\ (Includes(lastOp.before, lastOp.day) \/ ~InRange(lastOp.day))
              => projectionDates = lastOp.before
        /\ addProjectionDate(projectionDates, lastOp.day) = projectionDates

\* day 12 was added, and then added again
C5_Witness ==
    /\ lastOp.op = "add"
    /\ lastOp.day = 12
    /\ Includes(lastOp.before, 12)
    /\ projectionDates = lastOp.before

\* C6: removeProjectionDate leaves a list without the day, holding every
\* other previous element in the previous order; an absent day changes
\* nothing.
C6_RemoveFrame ==
    lastOp.op = "remove" =>
        /\ ~Includes(projectionDates, lastOp.day)
        /\ Elements(projectionDates) = Elements(lastOp.before) \ {lastOp.day}
        /\ \A i, j \in 1..Len(projectionDates) :
              i < j => Position(lastOp.before, projectionDates[i])
                        < Position(lastOp.before, projectionDates[j])
        /\ ~Includes(lastOp.before, lastOp.day) => projectionDates = lastOp.before

\* a day with days on both sides of it was removed
C6_Witness ==
    /\ lastOp.op = "remove"
    /\ Includes(lastOp.before, lastOp.day)
    /\ \E i \in 1..Len(projectionDates) : projectionDates[i] < lastOp.day
    /\ \E i \in 1..Len(projectionDates) : projectionDates[i] > lastOp.day

\* C7: getProjectionData has exactly one point for each projection date and
\* its points are strictly ascending by date.
C7_OnePointPerDateAscending ==
    /\ \A i, j \in 1..Len(getProjectionData) :
          i < j => getProjectionData[i].date < getProjectionData[j].date
    /\ {getProjectionData[i].date : i \in 1..Len(getProjectionData)} = Elements(projectionDates)
    /\ Len(getProjectionData) = Cardinality(Elements(projectionDates))

\* records are stored, a date was added and another removed
C7_Witness ==
    /\ Len(incomes) > 0
    /\ Len(deductions) > 0
    /\ Includes(projectionDates, 12)
    /\ ~Includes(projectionDates, 25)
    /\ Len(getProjectionData) = 5

\* C8: at most one point of getProjectionData has isToday set.
C8_AtMostOneToday ==
    Cardinality({i \in 1..Len(getProjectionData) : getProjectionData[i].isToday}) <= 1

\* today is one of several projection dates, with dates before and after it
C8_Witness ==
    /\ lastOp.op # "none"
    /\ Cardinality({i \in 1..Len(getProjectionData) : getProjectionData[i].isToday}) = 1
    /\ \E i \in 1..Len(getProjectionData) : getProjectionData[i].date < currentDay
    /\ \E i \in 1..Len(getProjectionData) : getProjectionData[i].date > currentDay

\* C9: every point has isPast exactly when its date is not after currentDay
\* and isToday exactly when its date is currentDay, so isToday implies
\* isPast; with dates 5, 10, 15 on day 10 the point for 10 is today and past
\* and the point for 15 is not past.
C9_PastAndTodayFlags ==
    /\ \A i \in 1..Len(getProjectionData) :
          LET point == getProjectionData[i]
          IN  /\ point.isPast = (point.date <= currentDay)
              /\ point.isToday = (point.date = currentDay)
              /\ point.isToday => point.isPast
    /\ (projectionDates = <<5, 10, 15>> /\ currentDay = 10) =>
          /\ Len(getProjectionData) = 3
          /\ getProjectionData[2].date = 10
          /\ getProjectionData[2].isToday
          /\ getProjectionData[2].isPast
          /\ getProjectionData[3].date = 15
          /\ ~getProjectionData[3].isPast

C9_Witness ==
    /\ projectionDates = <<5, 10, 15>>
    /\ currentDay = 10

\* C10: with overdraft disabled the available budget is the budget itself,
\* negative or not, and no overdraft is used; with overdraft enabled the
\* available budget is the budget floored at 0, the used overdraft is the
\* deficit, and the remaining overdraft is the limit minus the used
\* overdraft floored at 0. The same holds of the monthly figures on
\* rawBudget.
C10_OverdraftFormula ==
    /\ ~overdraftEnabled =>
          /\ currentAvailableBudget = remainingBudget
          /\ usedOverdraft = 0
          /\ monthlyCurrentAvailableBudget = rawBudget
          /\ monthlyUsedOverdraft = 0
    /\ overdraftEnabled =>
          /\ currentAvailableBudget = (IF remainingBudget > 0 THEN remainingBudget ELSE 0)
          /\ usedOverdraft = (IF remainingBudget < 0 THEN 0 - remainingBudget ELSE 0)
          /\ remainingOverdraft =
                (IF overdraftLimit > usedOverdraft THEN overdraftLimit - usedOverdraft ELSE 0)
          /\ monthlyCurrentAvailableBudget = (IF rawBudget > 0 THEN rawBudget ELSE 0)
          /\ monthlyUsedOverdraft = (IF rawBudget < 0 THEN 0 - rawBudget ELSE 0)
          /\ monthlyRemainingOverdraft =
                (IF overdraftLimit > monthlyUsedOverdraft
                 THEN overdraftLimit - monthlyUsedOverdraft ELSE 0)

\* overdraft disabled, the month in deficit
C10_Witness ==
    /\ ~overdraftEnabled
    /\ overdraftLimit > 0
    /\ remainingBudget < 0
    /\ currentAvailableBudget < 0

\* the availability formula of the specification, for a budget
AvailableOf(budget) == IF overdraftEnabled /\ budget < 0 THEN 0 ELSE budget
UsedOf(budget) == IF overdraftEnabled /\ budget < 0 THEN 0 - budget ELSE 0

\* C11: with overdraft enabled and the month not in deficit, the remaining
\* overdraft is the overdraft limit, whatever limit was typed.
C11_RemainingIsLimit ==
    (overdraftEnabled /\ remainingBudget >= 0) => remainingOverdraft = overdraftLimit

\* C12: the remaining overdraft of the dashboard and of the monthly view are
\* never negative.
C12_RemainingOverdraftNonNegative ==
    /\ remainingOverdraft >= 0
    /\ monthlyRemainingOverdraft >= 0

\* the used overdraft exceeds a positive limit in both views
C12_Witness ==
    /\ overdraftEnabled
    /\ overdraftLimit > 0
    /\ usedOverdraft > overdraftLimit
    /\ monthlyUsedOverdraft > overdraftLimit

\* C13: the dashboard figures are the availability formula on
\* remainingBudget, the monthly figures the same formula on rawBudget, and
\* both cells of the monthly tab that show the budget available today show
\* the rawBudget one. Stated for records dated in 1..31, where rawBudget is
\* income received minus deductions taken so far.
C13_ViewsKeptApart ==
    (IncomeDatesInRange /\ DeductionDatesInRange) =>
        /\ currentAvailableBudget = AvailableOf(remainingBudget)
        /\ usedOverdraft = UsedOf(remainingBudget)
        /\ monthlyCurrentAvailableBudget = AvailableOf(rawBudget)
        /\ monthlyUsedOverdraft = UsedOf(rawBudget)
        /\ monthlyTabBudgetActuel = AvailableOf(rawBudget)
        /\ monthlyTabBudgetActuelDisponible = AvailableOf(rawBudget)

\* Array.prototype.reverse
Reverse(seq) == [i \in 1..Len(seq) |-> seq[Len(seq) + 1 - i]]

\* C14: totalIncome is the sum of the amounts of all incomes and
\* totalDeductions the sum of the amounts of all deductions, whatever their
\* dates and their order; remainingBudget is their difference; all three
\* are 0 without records. The totals are the numbers the page computes.
C14_TotalsUnfiltered ==
    /\ totalIncomeNumber = NumberOfCents(SumAt(incomes, 1..Len(incomes)))
    /\ totalDeductionsNumber = NumberOfCents(SumAt(deductions, 1..Len(deductions)))
    /\ totalIncomeNumber = ReduceNumber(Reverse(incomes), Len(incomes))
    /\ totalDeductionsNumber = ReduceNumber(Reverse(deductions), Len(deductions))
    /\ remainingBudgetNumber = DoubleSub(totalIncomeNumber, totalDeductionsNumber)
    /\ (incomes = <<>> /\ deductions = <<>>) =>
          /\ totalIncomeNumber = ZeroLimbs
          /\ totalDeductionsNumber = ZeroLimbs
          /\ remainingBudgetNumber = [neg |-> FALSE, mag |-> ZeroLimbs]

\* C15: a record dated currentDay is processed and not pending, and
\* rawBudget counts it: rawBudget is what the records dated today add to
\* what the filters keep of the records dated before today.
C15_TodayIsProcessed ==
    /\ \A i \in 1..Len(incomes) :
          incomes[i].incomeDate = currentDay =>
              /\ Includes(getProcessedIncomes, incomes[i])
              /\ ~Includes(getPendingIncomes, incomes[i])
    /\ \A i \in 1..Len(deductions) :
          deductions[i].deductionDate = currentDay =>
              /\ Includes(getProcessedDeductions, deductions[i])
              /\ ~Includes(getPendingDeductions, deductions[i])
    /\ rawBudget =
          SumAt(incomes, {i \in 1..Len(incomes) : incomes[i].incomeDate = currentDay})
          - SumAt(deductions,
                  {i \in 1..Len(deductions) : deductions[i].deductionDate = currentDay})
          + SumAt(incomes, {i \in 1..Len(incomes) :
                  incomes[i].incomeDate # 0 /\ incomes[i].incomeDate < currentDay})
          - SumAt(deductions,
                  {i \in 1..Len(deductions) : deductions[i].deductionDate < currentDay})

\* an income and a deduction are dated today
C15_Witness ==
    /\ \E i \in 1..Len(incomes) :
          incomes[i].incomeDate = currentDay /\ incomes[i].amount > 0
    /\ \E i \in 1..Len(deductions) : deductions[i].deductionDate = currentDay

\* C16: every stored income has incomeDate in 1..31 and every stored
\* deduction has deductionDate in 1..31.
C16_StoredDatesInRange ==
    /\ \A i \in 1..Len(storeIncomes) : InRange(storeIncomes[i].value.incomeDate)
    /\ \A i \in 1..Len(storeDeductions) : InRange(storeDeductions[i].value.deductionDate)

\* C17: every stored income and deduction has an amount above 0.
C17_StoredAmountsPositive ==
    /\ \A i \in 1..Len(storeIncomes) : storeIncomes[i].value.amount > 0
    /\ \A i \in 1..Len(storeDeductions) : storeDeductions[i].value.amount > 0

WellKeyed(store) ==
    /\ \A i, j \in 1..Len(store) :
          i # j => (store[i].key # store[j].key /\ store[i].value.id # store[j].value.id)
    /\ \A i \in 1..Len(store) : store[i].value.id = store[i].key

\* every key that is new in the Map was never handed out before
FreshKeys(before, after) ==
    \A i \in 1..Len(after) : ~MapHas(before, after[i].key) => after[i].key > uuidCount

\* C18: in each collection no two records share an id, every record's id is
\* the key it is stored under, and a create never assigns an id that was
\* handed out before, deleted or not.
C18_IdsUniqueNeverReused ==
    /\ [](WellKeyed(storeIncomes) /\ WellKeyed(storeDeductions))
    /\ [][/\ FreshKeys(storeIncomes, storeIncomes')
          /\ FreshKeys(storeDeductions, storeDeductions')]_vars

\* an income was created after the record with the previous id was deleted
C18_Witness ==
    /\ lastRequest.op = "POST /api/incomes"
    /\ lastRequest.status = 201
    /\ Len(storeIncomes) = 1
    /\ storeDeductions = <<>>
    /\ storeIncomes[1].key > 1
    /\ storeIncomes[1].value.id = storeIncomes[1].key

\* C19: an update or a delete of an id that is not in the collection is
\* answered 404 and changes nothing; a delete is answered 204 exactly when
\* the id was there, and afterwards neither the Map nor the list has it.
C19_AbsentIdReported ==
    [][/\ (lastRequest'.op = "PUT /api/incomes" /\ ~MapHas(storeIncomes, lastRequest'.id)) =>
             (lastRequest'.status = 404 /\ UNCHANGED recordVars)
       /\ (lastRequest'.op = "PUT /api/deductions"
              /\ ~MapHas(storeDeductions, lastRequest'.id)) =>
             (lastRequest'.status = 404 /\ UNCHANGED recordVars)
       /\ lastRequest'.op = "DELETE /api/incomes" =>
             /\ (lastRequest'.status = 204) = MapHas(storeIncomes, lastRequest'.id)
             /\ (lastRequest'.status = 404) = ~MapHas(storeIncomes, lastRequest'.id)
             /\ ~MapHas(storeIncomes', lastRequest'.id)
             /\ \A i \in 1..Len(incomes') : incomes'[i].id # lastRequest'.id
             /\ ~MapHas(storeIncomes, lastRequest'.id) => UNCHANGED recordVars
       /\ lastRequest'.op = "DELETE /api/deductions" =>
             /\ (lastRequest'.status = 204) = MapHas(storeDeductions, lastRequest'.id)
             /\ (lastRequest'.status = 404) = ~MapHas(storeDeductions, lastRequest'.id)
             /\ ~MapHas(storeDeductions', lastRequest'.id)
             /\ \A i \in 1..Len(deductions') : deductions'[i].id # lastRequest'.id
             /\ ~MapHas(storeDeductions, lastRequest'.id) => UNCHANGED recordVars
      ]_vars

\* an update of an id that was handed out and is gone, other incomes stored
C19_Witness ==
    /\ lastRequest.op = "PUT /api/incomes"
    /\ lastRequest.status = 404
    /\ lastRequest.id <= uuidCount
    /\ ~MapHas(storeIncomes, lastRequest.id)
    /\ ~MapHas(storeDeductions, lastRequest.id)
    /\ Len(storeIncomes) > 0

\* what update(id, partial) does to an existing record: the schema's fields
\* that partial carries are replaced, everything else stays
UpdateFrame(before, after, id, body, dateField) ==
    LET i == MapIndex(before, id)
    IN  /\ Len(after) = Len(before)
        /\ \A j \in 1..Len(before) : j # i => after[j] = before[j]
        /\ after[i].key = before[i].key
        /\ DOMAIN after[i].value = DOMAIN before[i].value
        /\ after[i].value.id = before[i].value.id
        /\ after[i].value.userId = before[i].value.userId
        /\ \A f \in {"amount", dateField} :
              after[i].value[f] = IF f \in DOMAIN body THEN body[f] ELSE before[i].value[f]

\* C20: an update of an existing record replaces exactly the fields the
\* request carries: id and userId stay, the other fields stay, no record is
\* added or removed, and every other record is untouched.
C20_UpdateReplacesGivenFields ==
    [][/\ (lastRequest'.op = "PUT /api/incomes" /\ MapHas(storeIncomes, lastRequest'.id)) =>
             /\ UpdateFrame(storeIncomes, storeIncomes', lastRequest'.id,
                             lastRequest'.body, "incomeDate")
             /\ UNCHANGED <<storeDeductions, uuidCount>>
       /\ (lastRequest'.op = "PUT /api/deductions"
              /\ MapHas(storeDeductions, lastRequest'.id)) =>
             /\ UpdateFrame(storeDeductions, storeDeductions', lastRequest'.id,
                             lastRequest'.body, "deductionDate")
             /\ UNCHANGED <<storeIncomes, uuidCount>>
      ]_vars

\* one of two incomes got a new amount from a body that also carried
\* another record's id
C20_Witness ==
    /\ lastRequest.op = "PUT /api/incomes"
    /\ lastRequest.status = 200
    /\ DOMAIN lastRequest.body = {"amount", "id"}
    /\ lastRequest.body["id"] # lastRequest.id
    /\ Len(storeIncomes) = 2
    /\ storeIncomes[MapIndex(storeIncomes, lastRequest.id)].value.amount
          = lastRequest.body["amount"]

\* a payload the route's schema refuses: a field of the wrong type, or for a
\* create a required field that is missing
FailsValidation(request) ==
    \/ /\ request.op = "POST /api/incomes"
       /\ \/ ~({"amount", "incomeDate"} \subseteq DOMAIN request.body)
          \/ \E f \in DOMAIN request.body : request.body[f] \in IllTypedValues
    \/ /\ request.op = "POST /api/deductions"
       /\ \/ ~({"amount", "deductionDate"} \subseteq DOMAIN request.body)
          \/ \E f \in DOMAIN request.body : request.body[f] \in IllTypedValues
    \/ /\ request.op \in {"PUT /api/incomes", "PUT /api/deductions"}
       /\ \E f \in DOMAIN request.body : request.body[f] \in IllTypedValues

\* C21: a create or update whose payload fails validation is answered 400
\* and leaves both collections as they were.
C21_InvalidPayloadRejected ==
    [][FailsValidation(lastRequest') =>
            (lastRequest'.status = 400 /\ UNCHANGED recordVars)]_vars

\* an update of a stored income was refused for an ill-typed amount
C21_Witness ==
    /\ lastRequest.op = "PUT /api/incomes"
    /\ lastRequest.status = 400
    /\ MapHas(storeIncomes, lastRequest.id)
    /\ "amount" \in DOMAIN lastRequest.body
    /\ lastRequest.body["amount"] \in IllTypedValues
    /\ \A i \in 1..Len(storeIncomes) : storeIncomes[i].value.amount \notin IllTypedValues

\* C22: after every mutation and the refresh it triggers, the totals are
\* the sums over the records the store holds now.
C22_TotalsOverCurrentRecords ==
    /\ totalIncome = SumAmounts(MapValues(storeIncomes))
    /\ totalDeductions = SumAmounts(MapValues(storeDeductions))
    /\ remainingBudget
          = SumAmounts(MapValues(storeIncomes)) - SumAmounts(MapValues(storeDeductions))

\* the only income was deleted while a deduction stays
C22_Witness ==
    /\ lastRequest.op = "DELETE /api/incomes"
    /\ lastRequest.status = 204
    /\ storeIncomes = <<>>
    /\ Len(storeDeductions) = 1
    /\ totalIncome = 0
    /\ remainingBudget = 0 - storeDeductions[1].value.amount

\* C24: the totals computed from the stored decimal strings are the exact
\* decimal sums, and remainingBudget is their exact difference: each of the
\* three is the number that the decimal result converts to.
C24_TotalsDecimalExact ==
    /\ totalIncomeNumber = NumberOfCents(SumAmounts(incomes))
    /\ totalDeductionsNumber = NumberOfCents(SumAmounts(deductions))
    /\ remainingBudgetNumber
          = SignedNumberOfCents(SumAmounts(incomes) - SumAmounts(deductions))

----------------------------------------------------------------------------
\* C25: whatever numbers the date input hands to addProjectionDate and
\* whatever is removed, every projection date is a whole day of the month
\* in 1..31.
C25_ProjectionDatesWholeDays ==
    \A i \in 1..Len(projectionDates) :
        /\ projectionDates[i] % HalvesPerDay = 0
        /\ (projectionDates[i] \div HalvesPerDay) \in MinDay..MaxDay

----------------------------------------------------------------------------
\* C26: the processed and the pending total add up to the whole total, for
\* incomes and for deductions, so the current budget plus the incomes still
\* to come minus the deductions still to come is the end-of-month forecast.
C26_ProcessedPlusPendingIsTotal ==
    /\ processedIncomesTotal + pendingIncomesTotal = totalIncome
    /\ processedDeductionsTotal + pendingDeductionsTotal = totalDeductions
    /\ rawBudget + pendingIncomesTotal - pendingDeductionsTotal = remainingBudget

----------------------------------------------------------------------------
\* C27: the clamped and the unclamped calculation agree up to today and
\* part after it: the projection point of a date d <= currentDay has the
\* budget calculateBudgetAtDate(d), the point of currentDay has rawBudget,
\* and calculateBudgetAtDate(d) is rawBudget for every d > currentDay.
C27_ClampedAgreesOnPast ==
    /\ \A i \in 1..Len(getProjectionData) :
          LET point == getProjectionData[i]
          IN  /\ point.date <= currentDay =>
                    point.budget = calculateBudgetAtDate(point.date)
              /\ point.date = currentDay => point.budget = rawBudget
    /\ \A d \in TargetDates \cup Elements(projectionDates) :
          d > currentDay => calculateBudgetAtDate(d) = rawBudget

\* today has a point with a budget, and a later point shows a budget that
\* the clamped calculation does not
C27_Witness ==
    /\ \E i \in 1..Len(getProjectionData) :
          /\ getProjectionData[i].isToday
          /\ getProjectionData[i].budget # 0
    /\ \E i \in 1..Len(getProjectionData) :
          /\ getProjectionData[i].date > currentDay
          /\ getProjectionData[i].budget # calculateBudgetAtDate(getProjectionData[i].date)

----------------------------------------------------------------------------
\* C28: when 31 is a projection date, its point carries the whole month:
\* its incomes are totalIncome, its deductions totalDeductions and its
\* budget remainingBudget, so no stored record is left out.
C28_MonthEndPointIsTotal ==
    \A i \in 1..Len(getProjectionData) :
        LET point == getProjectionData[i]
        IN  point.date = MaxDay =>
                /\ point.incomes = totalIncome
                /\ point.deductions = totalDeductions
                /\ point.budget = remainingBudget

----------------------------------------------------------------------------
\* C29: with overdraft enabled, in the dashboard and in the monthly view the
\* available budget is not negative, the available budget minus the used
\* overdraft is the budget of the view, and at most one of the two is not 0.
C29_AvailableMinusUsedIsBudget ==
    overdraftEnabled =>
        /\ currentAvailableBudget >= 0
        /\ currentAvailableBudget - usedOverdraft = remainingBudget
        /\ currentAvailableBudget = 0 \/ usedOverdraft = 0
        /\ monthlyCurrentAvailableBudget >= 0
        /\ monthlyCurrentAvailableBudget - monthlyUsedOverdraft = rawBudget
        /\ monthlyCurrentAvailableBudget = 0 \/ monthlyUsedOverdraft = 0

\* overdraft enabled, the month in deficit through a deduction still to come
C29_Witness ==
    /\ overdraftEnabled
    /\ remainingBudget < 0
    /\ usedOverdraft > 0
    /\ rawBudget = 0
    /\ monthlyUsedOverdraft = 0

----------------------------------------------------------------------------
\* C30: a submit of a form while one of its records is edited sends the
\* update of that record's id and no create, and the number of stored
\* records does not grow, also when the record is gone and the update is
\* answered not found; an update that succeeds ends the editing, one that
\* fails leaves it; cancelEdit ends the editing of both forms.
C30_EditSubmitUpdates ==
    [][/\ (/\ editingIncome # <<>>
           /\ lastRequest'.op \in {"POST /api/incomes", "PUT /api/incomes"}) =>
              /\ lastRequest'.op = "PUT /api/incomes"
              /\ lastRequest'.id = editingIncome[1].id
              /\ Len(storeIncomes') <= Len(storeIncomes)
              /\ uuidCount' = uuidCount
              /\ editingIncome' = IF apiRequestOk(lastRequest'.status)
                                    THEN <<>> ELSE editingIncome
       /\ (/\ editingDeduction # <<>>
           /\ lastRequest'.op \in {"POST /api/deductions", "PUT /api/deductions"}) =>
              /\ lastRequest'.op = "PUT /api/deductions"
              /\ lastRequest'.id = editingDeduction[1].id
              /\ Len(storeDeductions') <= Len(storeDeductions)
              /\ uuidCount' = uuidCount
              /\ editingDeduction' = IF apiRequestOk(lastRequest'.status)
                                       THEN <<>> ELSE editingDeduction
       /\ lastRequest'.op = "cancelEdit" =>
              (editingIncome' = <<>> /\ editingDeduction' = <<>>)
      ]_vars

\* the edited income was deleted before the form was submitted: the update
\* was answered not found and the form is still in edit mode
C30_Witness ==
    /\ lastRequest.op = "PUT /api/incomes"
    /\ lastRequest.status = 404
    /\ editingIncome # <<>>
    /\ lastRequest.id = editingIncome[1].id
    /\ \A i \in 1..Len(storeIncomes) : storeIncomes[i].key # lastRequest.id

====
